---- MODULE Spec2Model ----
(***************************************************************************)
(* Device creation with automatic firmware-asset remediation:              *)
(* createDevicesEndpoints(...).create of src/src/devices.ts and the error  *)
(* classes of src/src/errors.ts.                                           *)
(*                                                                         *)
(* One call of create is one JavaScript async activation chain (the        *)
(* recursion at devices.ts:97 is a tail "return await create(...)").       *)
(* JavaScript runs the code between two awaits without interruption, so    *)
(* every action below is the settlement of one awaited promise together    *)
(* with all the synchronous code that follows it up to the next await.     *)
(***************************************************************************)
EXTENDS Naturals, Sequences, FiniteSets, TLC

\* Bound of the model: creation requests one call may issue; the service stops
\* reporting missing assets at the last of them.
MaxAttempts == 3

----------------------------------------------------------------------------
(* Values *)

Undefined == "undefined"
Null == "null"

\* Values of process.env.FETCH_FIRMWARE_ASSETS (devices.ts:75).
EnvValues == {Undefined, "1", "true"}

\* The patches argument of create (devices.ts:64), Undefined when the caller gives none.
PatchesArgs == {Undefined, "jailbroken", "corelliumd", "nonjailbroken"}

ProjectIds == {"p1", "p2"}

\* The rest of the request body (devices.ts:59): everything but patches.
Bodies == {[project |-> p, name |-> "d1", flavor |-> "ranchu", os |-> "14.0.0"] : p \in ProjectIds}

Urls == {"https://x/fw1", "https://x/fw2"}

\* Lists the service reports in missingFwAssets: empty, single, distinct, duplicated.
AssetLists ==
  { <<>>,
    <<"https://x/fw1">>,
    <<"https://x/fw1", "https://x/fw2">>,
    <<"https://x/fw2", "https://x/fw2">> }

\* A JavaScript value in the missingFwAssets slot of an error payload.
JsUndefined == [tag |-> "undefined", items |-> <<>>]
JsNull == [tag |-> "null", items |-> <<>>]
JsArray(s) == [tag |-> "array", items |-> s]

\* Error payloads without a missingFwAssets list (RawSDKError, errors.ts:12-16).
GenericPayloads ==
  { [error |-> "bad request", errorID |-> "E1", field |-> "os",
     missingFwAssets |-> JsUndefined, projectId |-> Undefined],
    [error |-> "quota", errorID |-> "E2", field |-> Undefined,
     missingFwAssets |-> JsUndefined, projectId |-> Undefined],
    [error |-> "quota", errorID |-> "E1", field |-> Null,
     missingFwAssets |-> JsUndefined, projectId |-> "p1"],
    [error |-> "bad request", errorID |-> "E2", field |-> "os",
     missingFwAssets |-> JsNull, projectId |-> "p2"] }

\* Error payloads with a missingFwAssets list (RawMissingFirmwareAssetError, errors.ts:18-21).
MissingPayloads ==
  [error : {"missing assets"}, errorID : {"E3"}, field : {Undefined},
   missingFwAssets : {JsArray(s) : s \in AssetLists}, projectId : ProjectIds]

RawErrors == GenericPayloads \cup MissingPayloads

DataPayloads == {"d1-instance", "d2-instance"}

\* What api.POST resolves to: {data} or {error}; an absent member is the empty sequence.
Responses ==
  {[error |-> <<>>, data |-> <<d>>] : d \in DataPayloads}
    \cup {[error |-> <<e>>, data |-> <<>>] : e \in RawErrors}

NoResponse == [error |-> <<>>, data |-> <<>>]

\* What fetch resolves to: Response.ok and whether Response.body is non-null
\* (a 200 with a body, a 404 with a body, a 204 without one, a 502 without one).
FetchResponses == [ok : BOOLEAN, body : BOOLEAN]
NoFetchResponse == [ok |-> FALSE, body |-> FALSE]

NoError == [class |-> "", message |-> "", errorID |-> "", field |-> ""]
NoKnownErr ==
  [class |-> "", message |-> "", errorID |-> "", field |-> "",
   missingFwAssets |-> JsUndefined, projectId |-> ""]
NoImageRequest ==
  [type |-> "", encoding |-> "", encapsulated |-> FALSE, name |-> "", project |-> "",
   file |-> [name |-> 0, content |-> "", type |-> ""]]

DisabledMessage == "requires additional firmware assets: set FETCH_FIRMWARE_ASSETS=1"

VARIABLES
  pc,           \* where the call is suspended: idle, an await, returned or thrown
  args,         \* what the caller passed to create
  patches,      \* the patches parameter of the running activation, default applied
  body,         \* the body rest parameter of the running activation
  env,          \* process.env.FETCH_FIRMWARE_ASSETS
  response,     \* the creation response of the running activation
  knownErr,     \* the MissingFirmwareAssetError of the running round
  idx,          \* position of the for-of iterator in knownErr.missingFwAssets
  fwAssetPath,  \* the scratch path of the running iteration
  imageRequest, \* the argument of the imageApi.create call of the running iteration
  files,        \* the scratch directory: a record per file, its name and how much is written
  uuids,        \* number of crypto.randomUUID() calls so far
  inflight,     \* the promises the call is waiting for
  log,          \* the I/O of the running round, in order
  posts,        \* the bodies of the creation requests sent, in order
  rounds,       \* remediation rounds run to the end of their list
  nFetch,       \* fetch calls made
  nReg,         \* imageApi.create calls made
  result,       \* what create resolved to
  thrown        \* what create rejected with

vars ==
  <<pc, args, patches, body, env, response, knownErr, idx, fwAssetPath, imageRequest,
    files, uuids, inflight, log, posts, rounds, nFetch, nReg, result, thrown>>

Init ==
  /\ pc = "idle"
  /\ args = [patches |-> Undefined, body |-> CHOOSE b \in Bodies : TRUE]
  /\ patches = Undefined
  /\ body = CHOOSE b \in Bodies : TRUE
  /\ env \in EnvValues
  /\ response = NoResponse
  /\ knownErr = NoKnownErr
  /\ idx = 0
  /\ fwAssetPath = <<>>
  /\ imageRequest = NoImageRequest
  /\ files = {}
  /\ uuids = 0
  /\ inflight = {}
  /\ log = <<>>
  /\ posts = <<>>
  /\ rounds = 0
  /\ nFetch = 0
  /\ nReg = 0
  /\ result = <<>>
  /\ thrown = NoError

----------------------------------------------------------------------------
(* Pure parts *)

\* Variant: the list also tested for elements, if (missingFwAssets?.length).
TruthyNonEmpty(v) == v.tag = "array" /\ v.items # <<>>

\* JavaScript truthiness of the value in the missingFwAssets slot (devices.ts:74):
\* undefined and null are falsy, every array is truthy, the empty one too.
Truthy(v) == v.tag = "array"

\* Variant: the opt-in tested for truthiness, if (process.env.FETCH_FIRMWARE_ASSETS).
RemediationEnabledTruthy(e) == e # Undefined

\* Variant: the opt-in read once and kept, so that a call that ran a round keeps on.
RemediationEnabledCached(e) == IF rounds > 0 THEN TRUE ELSE e = "1"

\* process.env.FETCH_FIRMWARE_ASSETS === '1' (devices.ts:75).
RemediationEnabled(e) == e = "1"

\* Variant: the parameter without its default.
DefaultPatchesNone(p) == p

\* patches = 'jailbroken' (devices.ts:58): the default applies to undefined only.
DefaultPatches(p) == IF p = Undefined THEN "jailbroken" ELSE p

\* The body of the creation request (devices.ts:67-70).
RequestBody(p, b) ==
  [project |-> b.project, name |-> b.name, flavor |-> b.flavor, os |-> b.os,
   patches |-> <<p>>]

\* Variant: the constructor without its assignment of field.
CorelliumSDKErrorNoField(data) ==
  [class |-> "CorelliumSDKError", message |-> data.error, errorID |-> data.errorID,
   field |-> Undefined]

\* new CorelliumSDKError(data) (errors.ts:5-9).
CorelliumSDKError(data) ==
  [class |-> "CorelliumSDKError", message |-> data.error, errorID |-> data.errorID,
   field |-> data.field]

\* Variant: the constructor storing the list without its repeated URLs.
RECURSIVE Dedup(_)
Dedup(s) ==
  IF s = <<>> THEN <<>>
  ELSE LET front == Dedup(SubSeq(s, 1, Len(s) - 1))
       IN IF \E k \in 1..Len(front) : front[k] = s[Len(s)]
          THEN front ELSE Append(front, s[Len(s)])
MissingFirmwareAssetErrorDedup(data) ==
  [class |-> "MissingFirmwareAssetError", message |-> data.error,
   errorID |-> data.errorID, field |-> data.field,
   missingFwAssets |-> [tag |-> data.missingFwAssets.tag,
                        items |-> Dedup(data.missingFwAssets.items)],
   projectId |-> data.projectId]

\* new MissingFirmwareAssetError(data) (errors.ts:27-31).
MissingFirmwareAssetError(data) ==
  [class |-> "MissingFirmwareAssetError", message |-> CorelliumSDKError(data).message,
   errorID |-> CorelliumSDKError(data).errorID, field |-> CorelliumSDKError(data).field,
   missingFwAssets |-> data.missingFwAssets, projectId |-> data.projectId]

\* new Error(message), as thrown at devices.ts:102 and by the awaited collaborators.
PlainError(cls, msg) ==
  [class |-> cls, message |-> msg, errorID |-> Undefined, field |-> Undefined]

\* Variant: the status not tested, if (response.body).
ResponseUsableBodyOnly(r) == r.body

\* response.ok && response.body (devices.ts:80).
ResponseUsable(r) == r.ok /\ r.body

\* path.join(os.tmpdir(), `${crypto.randomUUID()}.fwasset`) (devices.ts:79); the n-th
\* UUID drawn is written n.
TmpPath(n) == <<"tmp", n>>

\* fileFromPath (devices.ts:11-19): the File is named after the last path segment and
\* holds what the scratch file holds when it is read.
FileFromPath(path, dir) ==
  [name |-> path[Len(path)],
   content |-> (CHOOSE f \in dir : f.name = path[Len(path)]).written,
   type |-> "application/octet-stream"]

\* Variant: the asset registered against the project of the creation request.
ImageCreateArgsBodyProject(url, err, file) ==
  [type |-> "fwasset", encoding |-> "plain", encapsulated |-> FALSE, name |-> url,
   project |-> body.project, file |-> file]

\* Variant: the asset named after the last segment of its URL.
ImageCreateArgsBasename(url, err, file) ==
  [type |-> "fwasset", encoding |-> "plain", encapsulated |-> FALSE,
   name |-> (IF url = "https://x/fw1" THEN "fw1" ELSE "fw2"),
   project |-> err.projectId, file |-> file]

\* The argument of imageApi.create (devices.ts:86-93).
ImageCreateArgs(url, err, file) ==
  [type |-> "fwasset", encoding |-> "plain", encapsulated |-> FALSE, name |-> url,
   project |-> err.projectId, file |-> file]

\* An entry of the round's I/O log: the operation, the iterator position, the URL and,
\* for a resolved fetch, the response.
Ev(op, k, url) == [op |-> op, idx |-> k, url |-> url, got |-> NoFetchResponse]
Fetched(k, url, r) == [op |-> "fetched", idx |-> k, url |-> url, got |-> r]
Pending(op, k) == [op |-> op, idx |-> k]

WithFile(dir, n, w) == {f \in dir : f.name # n} \cup {[name |-> n, written |-> w]}

----------------------------------------------------------------------------
(* create, devices.ts:57-110 *)

\* Entry of create up to its first await (devices.ts:57-71): the default of patches
\* is applied and the creation request is sent.
create(p, b) ==
  /\ Len(posts) < MaxAttempts
  /\ patches' = DefaultPatches(p)
  /\ body' = b
  /\ response' = NoResponse
  /\ posts' = Append(posts, RequestBody(DefaultPatches(p), b))
  /\ inflight' = {Pending("POST", 0)}
  /\ pc' = "awaitPost"

\* Variant: the recursive call made only after a round that registered an asset.
ForOfNeedsProgress(err, resp, k, lg) ==
  IF k <= Len(err.missingFwAssets.items)
  THEN /\ idx' = k
       /\ log' = Append(lg, Ev("fetch", k, err.missingFwAssets.items[k]))
       /\ nFetch' = nFetch + 1
       /\ inflight' = {Pending("fetch", k)}
       /\ pc' = "awaitFetch"
       /\ response' = resp
       /\ UNCHANGED <<patches, body, posts, rounds>>
  ELSE /\ idx' = k
       /\ log' = lg
       /\ rounds' = rounds + 1
       /\ IF \E h \in 1..Len(lg) : lg[h].op = "registerOk"
          THEN create(patches, body)
          ELSE /\ pc' = "thrown"
               /\ inflight' = {}
               /\ response' = resp
               /\ UNCHANGED <<patches, body, posts>>
       /\ UNCHANGED nFetch

\* Variant: create returning after the loop, the retry left to the caller.
ForOfReturnsAfterLoop(err, resp, k, lg) ==
  IF k <= Len(err.missingFwAssets.items)
  THEN /\ idx' = k
       /\ log' = Append(lg, Ev("fetch", k, err.missingFwAssets.items[k]))
       /\ nFetch' = nFetch + 1
       /\ inflight' = {Pending("fetch", k)}
       /\ pc' = "awaitFetch"
       /\ response' = resp
       /\ UNCHANGED <<patches, body, posts, rounds>>
  ELSE /\ idx' = k
       /\ log' = lg
       /\ rounds' = rounds + 1
       /\ pc' = "returned"
       /\ inflight' = {}
       /\ response' = resp
       /\ UNCHANGED <<patches, body, posts, nFetch>>

\* Variant: the recursive call made without the patches argument.
ForOfRetryDropsPatches(err, resp, k, lg) ==
  IF k <= Len(err.missingFwAssets.items)
  THEN /\ idx' = k
       /\ log' = Append(lg, Ev("fetch", k, err.missingFwAssets.items[k]))
       /\ nFetch' = nFetch + 1
       /\ inflight' = {Pending("fetch", k)}
       /\ pc' = "awaitFetch"
       /\ response' = resp
       /\ UNCHANGED <<patches, body, posts, rounds>>
  ELSE /\ idx' = k
       /\ log' = lg
       /\ rounds' = rounds + 1
       /\ create(Undefined, body)
       /\ UNCHANGED nFetch

\* Variant: a retry budget, the recursive call made for the first round only.
ForOfBounded(err, resp, k, lg) ==
  IF k <= Len(err.missingFwAssets.items)
  THEN /\ idx' = k
       /\ log' = Append(lg, Ev("fetch", k, err.missingFwAssets.items[k]))
       /\ nFetch' = nFetch + 1
       /\ inflight' = {Pending("fetch", k)}
       /\ pc' = "awaitFetch"
       /\ response' = resp
       /\ UNCHANGED <<patches, body, posts, rounds>>
  ELSE /\ idx' = k
       /\ log' = lg
       /\ rounds' = rounds + 1
       /\ IF rounds = 0
          THEN create(patches, body)
          ELSE /\ pc' = "thrown"
               /\ inflight' = {}
               /\ response' = resp
               /\ UNCHANGED <<patches, body, posts>>
       /\ UNCHANGED nFetch

\* Variant: the list walked from its end, position k taking the k-th URL from the back.
ForOfReversed(err, resp, k, lg) ==
  IF k <= Len(err.missingFwAssets.items)
  THEN /\ idx' = k
       /\ log' = Append(lg, Ev("fetch", k,
                   err.missingFwAssets.items[Len(err.missingFwAssets.items) + 1 - k]))
       /\ nFetch' = nFetch + 1
       /\ inflight' = {Pending("fetch", k)}
       /\ pc' = "awaitFetch"
       /\ response' = resp
       /\ UNCHANGED <<patches, body, posts, rounds>>
  ELSE /\ idx' = k
       /\ log' = lg
       /\ rounds' = rounds + 1
       /\ create(patches, body)
       /\ UNCHANGED nFetch

\* The for-of header at position k of err.missingFwAssets, lg being the round's I/O so
\* far (devices.ts:77-78): either the next URL is fetched, or the list is exhausted
\* and create calls itself with the same arguments (devices.ts:97-100).
ForOf(err, resp, k, lg) ==
  IF k <= Len(err.missingFwAssets.items)
  THEN /\ idx' = k
       /\ log' = Append(lg, Ev("fetch", k, err.missingFwAssets.items[k]))
       /\ nFetch' = nFetch + 1
       /\ inflight' = {Pending("fetch", k)}
       /\ pc' = "awaitFetch"
       /\ response' = resp
       /\ UNCHANGED <<patches, body, posts, rounds>>
  ELSE /\ idx' = k
       /\ log' = lg
       /\ rounds' = rounds + 1
       /\ create(patches, body)
       /\ UNCHANGED nFetch

\* The caller calls create.
CallCreate ==
  /\ pc = "idle"
  /\ \E p \in PatchesArgs, b \in Bodies :
       /\ args' = [patches |-> p, body |-> b]
       /\ create(p, b)
  /\ UNCHANGED <<env, knownErr, idx, fwAssetPath, imageRequest, files, uuids, log,
                 rounds, nFetch, nReg, result, thrown>>

\* Variant: the recursive call awaited without return, so that after a round the
\* outer call returns the data member of its own, failed, response.
PostSucceedsDropsRetryResult ==
  /\ pc = "awaitPost"
  /\ \E r \in Responses :
       /\ r.error = <<>>
       /\ response' = r
       /\ result' = IF rounds = 0 THEN r.data ELSE <<>>
  /\ pc' = "returned"
  /\ inflight' = {}
  /\ log' = <<>>
  /\ knownErr' = NoKnownErr
  /\ UNCHANGED <<args, patches, body, env, idx, fwAssetPath, imageRequest, files, uuids,
                 posts, rounds, nFetch, nReg, thrown>>

\* Variant: the success path returning response.error, which is undefined there.
PostSucceedsNoData ==
  /\ pc = "awaitPost"
  /\ \E r \in Responses :
       /\ r.error = <<>>
       /\ response' = r
       /\ result' = <<>>
  /\ pc' = "returned"
  /\ inflight' = {}
  /\ log' = <<>>
  /\ knownErr' = NoKnownErr
  /\ UNCHANGED <<args, patches, body, env, idx, fwAssetPath, imageRequest, files, uuids,
                 posts, rounds, nFetch, nReg, thrown>>

\* api.POST resolves without an error member: return response.data (devices.ts:73, 109).
PostSucceeds ==
  /\ pc = "awaitPost"
  /\ \E r \in Responses :
       /\ r.error = <<>>
       /\ response' = r
       /\ result' = r.data
  /\ pc' = "returned"
  /\ inflight' = {}
  /\ log' = <<>>
  /\ knownErr' = NoKnownErr
  /\ UNCHANGED <<args, patches, body, env, idx, fwAssetPath, imageRequest, files, uuids,
                 posts, rounds, nFetch, nReg, thrown>>

\* api.POST resolves with an error that is not a missing-asset error (devices.ts:104-106).
PostFailsGeneric ==
  /\ pc = "awaitPost"
  /\ \E r \in Responses :
       /\ r.error # <<>>
       /\ ~Truthy(r.error[1].missingFwAssets)
       /\ response' = r
       /\ thrown' = CorelliumSDKError(r.error[1])
  /\ pc' = "thrown"
  /\ inflight' = {}
  /\ log' = <<>>
  /\ knownErr' = NoKnownErr
  /\ UNCHANGED <<args, patches, body, env, idx, fwAssetPath, imageRequest, files, uuids,
                 posts, rounds, nFetch, nReg, result>>

\* api.POST resolves with a missing-asset error while the opt-in is off (devices.ts:101-103).
PostFailsDisabled ==
  /\ pc = "awaitPost"
  /\ \E r \in Responses :
       /\ r.error # <<>>
       /\ Truthy(r.error[1].missingFwAssets)
       /\ ~RemediationEnabled(env)
       /\ response' = r
  /\ thrown' = PlainError("Error", DisabledMessage)
  /\ pc' = "thrown"
  /\ inflight' = {}
  /\ log' = <<>>
  /\ knownErr' = NoKnownErr
  /\ UNCHANGED <<args, patches, body, env, idx, fwAssetPath, imageRequest, files, uuids,
                 posts, rounds, nFetch, nReg, result>>

\* Variant: the error of the first failed attempt kept for the later rounds.
PostFailsMissingKeepsFirstError ==
  /\ pc = "awaitPost"
  /\ Len(posts) < MaxAttempts
  /\ \E r \in Responses :
       /\ r.error # <<>>
       /\ Truthy(r.error[1].missingFwAssets)
       /\ RemediationEnabled(env)
       /\ knownErr' = IF knownErr.class = "MissingFirmwareAssetError"
                      THEN knownErr ELSE MissingFirmwareAssetError(r.error[1])
       /\ ForOf(IF knownErr.class = "MissingFirmwareAssetError"
                THEN knownErr ELSE MissingFirmwareAssetError(r.error[1]), r, 1, <<>>)
  /\ UNCHANGED <<args, env, fwAssetPath, imageRequest, files, uuids, nReg, result, thrown>>

\* api.POST resolves with a missing-asset error while the opt-in is on: the round
\* starts (devices.ts:75-78). The service of the model gives this answer to all but the
\* last request a call may issue, so that every round that starts can run to its end.
PostFailsMissing ==
  /\ pc = "awaitPost"
  /\ Len(posts) < MaxAttempts
  /\ \E r \in Responses :
       /\ r.error # <<>>
       /\ Truthy(r.error[1].missingFwAssets)
       /\ RemediationEnabled(env)
       /\ knownErr' = MissingFirmwareAssetError(r.error[1])
       /\ ForOf(MissingFirmwareAssetError(r.error[1]), r, 1, <<>>)
  /\ UNCHANGED <<args, env, fwAssetPath, imageRequest, files, uuids, nReg, result, thrown>>

\* api.POST rejects (the request never got an answer): the rejection leaves create.
PostRejects ==
  /\ pc = "awaitPost"
  /\ thrown' = PlainError("TypeError", "POST failed")
  /\ pc' = "thrown"
  /\ inflight' = {}
  /\ log' = <<>>
  /\ knownErr' = NoKnownErr
  /\ UNCHANGED <<args, patches, body, env, response, idx, fwAssetPath, imageRequest,
                 files, uuids, posts, rounds, nFetch, nReg, result>>

\* The URL the iterator stands on (devices.ts:77).
firmwareAssetUrl == knownErr.missingFwAssets.items[idx]

\* fetch resolves with a successful response that has a body: the scratch file is
\* opened for writing and the body is piped into it (devices.ts:78-83).
FetchResolvesUsable ==
  /\ pc = "awaitFetch"
  /\ \E r \in FetchResponses :
       /\ ResponseUsable(r)
       /\ log' = log \o <<Fetched(idx, firmwareAssetUrl, r), Ev("pipe", idx, firmwareAssetUrl)>>
  /\ uuids' = uuids + 1
  /\ fwAssetPath' = TmpPath(uuids + 1)
  /\ files' = WithFile(files, uuids + 1, "none")
  /\ inflight' = {Pending("pipe", idx)}
  /\ pc' = "awaitPipe"
  /\ UNCHANGED <<args, patches, body, env, response, knownErr, idx, imageRequest, posts,
                 rounds, nFetch, nReg, result, thrown>>

\* Variant: an unsuccessful or bodiless response answered by fetching the URL again.
FetchResolvesUnusableRefetches ==
  /\ pc = "awaitFetch"
  /\ Len(log) < 8
  /\ \E r \in FetchResponses :
       /\ ~ResponseUsable(r)
       /\ ForOf(knownErr, response, idx, Append(log, Fetched(idx, firmwareAssetUrl, r)))
  /\ uuids' = uuids + 1
  /\ fwAssetPath' = TmpPath(uuids + 1)
  /\ UNCHANGED <<args, env, knownErr, imageRequest, files, nReg, result, thrown>>

\* fetch resolves with an unsuccessful or bodiless response: the if at devices.ts:80
\* is not entered and the loop goes on (devices.ts:78-80, 95).
FetchResolvesUnusable ==
  /\ pc = "awaitFetch"
  /\ \E r \in FetchResponses :
       /\ ~ResponseUsable(r)
       /\ ForOf(knownErr, response, idx + 1, Append(log, Fetched(idx, firmwareAssetUrl, r)))
  /\ uuids' = uuids + 1
  /\ fwAssetPath' = TmpPath(uuids + 1)
  /\ UNCHANGED <<args, env, knownErr, imageRequest, files, nReg, result, thrown>>

\* Variant: the fetch wrapped in a try whose catch goes on with the next URL.
FetchRejectsSwallowed ==
  /\ pc = "awaitFetch"
  /\ ForOf(knownErr, response, idx + 1, Append(log, Ev("fetchReject", idx, firmwareAssetUrl)))
  /\ UNCHANGED <<args, env, knownErr, fwAssetPath, imageRequest, files, uuids, nReg,
                 result, thrown>>

\* fetch rejects (DNS, connection): nothing catches it, create rejects (devices.ts:78).
FetchRejects ==
  /\ pc = "awaitFetch"
  /\ thrown' = PlainError("TypeError", "fetch failed")
  /\ log' = Append(log, Ev("fetchReject", idx, firmwareAssetUrl))
  /\ inflight' = {}
  /\ pc' = "thrown"
  /\ UNCHANGED <<args, patches, body, env, response, knownErr, idx, fwAssetPath,
                 imageRequest, files, uuids, posts, rounds, nFetch, nReg, result>>

\* Variant: the end of the transfer awaited on a promise that never settles.
PipeResolvesHangs ==
  /\ pc = "awaitPipe"
  /\ pc' = "hung"
  /\ UNCHANGED <<args, patches, body, env, response, knownErr, idx, fwAssetPath,
                 imageRequest, files, uuids, inflight, log, posts, rounds, nFetch, nReg,
                 result, thrown>>

\* pipeTo resolves: the whole body is in the scratch file, which is read back
\* (devices.ts:83-84, 12).
PipeResolves ==
  /\ pc = "awaitPipe"
  /\ files' = WithFile(files, fwAssetPath[Len(fwAssetPath)], "all")
  /\ log' = log \o <<Ev("pipeOk", idx, firmwareAssetUrl), Ev("readFile", idx, firmwareAssetUrl)>>
  /\ inflight' = {Pending("readFile", idx)}
  /\ pc' = "awaitReadFile"
  /\ UNCHANGED <<args, patches, body, env, response, knownErr, idx, fwAssetPath,
                 imageRequest, uuids, posts, rounds, nFetch, nReg, result, thrown>>

\* Variant: the scratch file unlinked when the transfer fails.
PipeRejectsUnlinks ==
  /\ pc = "awaitPipe"
  /\ files' = {f \in files : f.name # fwAssetPath[Len(fwAssetPath)]}
  /\ thrown' = PlainError("Error", "pipeTo failed")
  /\ log' = Append(log, Ev("pipeReject", idx, firmwareAssetUrl))
  /\ inflight' = {}
  /\ pc' = "thrown"
  /\ UNCHANGED <<args, patches, body, env, response, knownErr, idx, fwAssetPath,
                 imageRequest, uuids, posts, rounds, nFetch, nReg, result>>

\* pipeTo rejects partway: nothing catches it, create rejects, and the scratch file
\* stays with what had been written (devices.ts:83).
PipeRejects ==
  /\ pc = "awaitPipe"
  /\ \E w \in {"none", "partial"} :
       files' = WithFile(files, fwAssetPath[Len(fwAssetPath)], w)
  /\ thrown' = PlainError("Error", "pipeTo failed")
  /\ log' = Append(log, Ev("pipeReject", idx, firmwareAssetUrl))
  /\ inflight' = {}
  /\ pc' = "thrown"
  /\ UNCHANGED <<args, patches, body, env, response, knownErr, idx, fwAssetPath,
                 imageRequest, uuids, posts, rounds, nFetch, nReg, result>>

\* readFile resolves: the File is built and handed to imageApi.create
\* (devices.ts:12-18, 84-93).
ReadFileResolves ==
  /\ pc = "awaitReadFile"
  /\ imageRequest' = ImageCreateArgs(firmwareAssetUrl, knownErr, FileFromPath(fwAssetPath, files))
  /\ nReg' = nReg + 1
  /\ log' = log \o <<Ev("readFileOk", idx, firmwareAssetUrl), Ev("register", idx, firmwareAssetUrl)>>
  /\ inflight' = {Pending("register", idx)}
  /\ pc' = "awaitRegister"
  /\ UNCHANGED <<args, patches, body, env, response, knownErr, idx, fwAssetPath, files,
                 uuids, posts, rounds, nFetch, result, thrown>>

\* readFile rejects: nothing catches it, create rejects (devices.ts:12, 84).
ReadFileRejects ==
  /\ pc = "awaitReadFile"
  /\ thrown' = PlainError("Error", "readFile failed")
  /\ log' = Append(log, Ev("readFileReject", idx, firmwareAssetUrl))
  /\ inflight' = {}
  /\ pc' = "thrown"
  /\ UNCHANGED <<args, patches, body, env, response, knownErr, idx, fwAssetPath,
                 imageRequest, files, uuids, posts, rounds, nFetch, nReg, result>>

\* Variant: the scratch file unlinked once its asset is registered.
RegisterResolvesUnlinks ==
  /\ pc = "awaitRegister"
  /\ ForOf(knownErr, response, idx + 1, Append(log, Ev("registerOk", idx, firmwareAssetUrl)))
  /\ files' = {f \in files : f.name # fwAssetPath[Len(fwAssetPath)]}
  /\ UNCHANGED <<args, env, knownErr, fwAssetPath, imageRequest, uuids, nReg,
                 result, thrown>>

\* imageApi.create resolves: the loop goes on (devices.ts:86-95).
RegisterResolves ==
  /\ pc = "awaitRegister"
  /\ ForOf(knownErr, response, idx + 1, Append(log, Ev("registerOk", idx, firmwareAssetUrl)))
  /\ UNCHANGED <<args, env, knownErr, fwAssetPath, imageRequest, files, uuids, nReg,
                 result, thrown>>

\* Variant: the registration wrapped in a try whose catch goes on with the next URL.
RegisterRejectsSwallowed ==
  /\ pc = "awaitRegister"
  /\ ForOf(knownErr, response, idx + 1, Append(log, Ev("registerReject", idx, firmwareAssetUrl)))
  /\ UNCHANGED <<args, env, knownErr, fwAssetPath, imageRequest, files, uuids, nReg,
                 result, thrown>>

\* imageApi.create rejects: nothing catches it, create rejects (devices.ts:86).
RegisterRejects ==
  /\ pc = "awaitRegister"
  /\ thrown' = PlainError("ImageApiError", "image create failed")
  /\ log' = Append(log, Ev("registerReject", idx, firmwareAssetUrl))
  /\ inflight' = {}
  /\ pc' = "thrown"
  /\ UNCHANGED <<args, patches, body, env, response, knownErr, idx, fwAssetPath,
                 imageRequest, files, uuids, posts, rounds, nFetch, nReg, result>>

\* Other code of the process assigns process.env.FETCH_FIRMWARE_ASSETS while the call
\* is suspended. create reads the variable only when a creation response has arrived
\* (devices.ts:75), so the assignment is taken while the call waits for that response.
SetEnv ==
  /\ pc = "awaitPost"
  /\ \E e \in EnvValues \ {env} : env' = e
  /\ UNCHANGED <<pc, args, patches, body, response, knownErr, idx, fwAssetPath,
                 imageRequest, files, uuids, inflight, log, posts, rounds, nFetch, nReg,
                 result, thrown>>

Next ==
  \/ CallCreate
  \/ PostSucceeds
  \/ PostFailsGeneric
  \/ PostFailsDisabled
  \/ PostFailsMissing
  \/ PostRejects
  \/ FetchResolvesUsable
  \/ FetchResolvesUnusable
  \/ FetchRejects
  \/ PipeResolves
  \/ PipeRejects
  \/ ReadFileResolves
  \/ ReadFileRejects
  \/ RegisterResolves
  \/ RegisterRejects
  \/ SetEnv

Spec == Init /\ [][Next]_vars

----------------------------------------------------------------------------
(* The call with the opt-in on throughout and every awaited promise settling *)

LiveInit == Init /\ env = "1"

\* An awaited promise of create settles: the creation request is answered or rejected,
\* a fetch, a streamed transfer, a read or a registration resolves or rejects.
Settles ==
  \/ PostSucceeds
  \/ PostFailsGeneric
  \/ PostFailsMissing
  \/ PostRejects
  \/ FetchResolvesUsable
  \/ FetchResolvesUnusable
  \/ FetchRejects
  \/ PipeResolves
  \/ PipeRejects
  \/ ReadFileResolves
  \/ ReadFileRejects
  \/ RegisterResolves
  \/ RegisterRejects

LiveNext == CallCreate \/ Settles

\* create awaits one promise at a time (devices.ts:66, 78, 83, 84, 86, 97), so the call
\* goes on as soon as that promise settles; no promise stays pending for ever.
LiveSpec == LiveInit /\ [][LiveNext]_vars /\ WF_vars(Settles)

----------------------------------------------------------------------------
(* Properties *)

\* The creation response that arrived in this step carries a missingFwAssets list.
ArrivedMissing ==
  /\ pc = "awaitPost"
  /\ response'.error # <<>>
  /\ response'.error[1].missingFwAssets.tag = "array"

\* Once create has returned or thrown it does nothing more.
Settled == pc \in {"returned", "thrown"}
NoFurtherIO ==
  Settled => /\ pc' = pc /\ posts' = posts /\ nFetch' = nFetch /\ nReg' = nReg
             /\ files' = files /\ inflight' = inflight

\* C1: when a creation response carries a missingFwAssets list and the opt-in is not
\* '1', create throws the remediation-disabled error in that very step, with no fetch,
\* no registration, no scratch file and no further creation request, then or later,
\* whatever the list holds.
C1_DisabledRaisesWithoutIO ==
  [][ /\ (ArrivedMissing /\ env # "1") =>
           /\ pc' = "thrown"
           /\ thrown' = PlainError("Error", DisabledMessage)
           /\ nFetch' = nFetch /\ nReg' = nReg /\ posts' = posts /\ files' = files
           /\ inflight' = {} /\ log' = <<>>
      /\ (pc = "thrown" /\ thrown.message = DisabledMessage) => NoFurtherIO ]_vars

\* C1 witness: the disabled error was thrown for a two-element list.
C1_Witness ==
  /\ pc = "thrown"
  /\ thrown.message = DisabledMessage
  /\ Len(response.error[1].missingFwAssets.items) = 2
  /\ env = "true"
  /\ nFetch = 0 /\ nReg = 0 /\ Len(posts) = 1

\* The entries of the round's log that belong to list position i.
At(i) == {k \in 1..Len(log) : log[k].idx = i}
Completes(e) ==
  \/ e.op = "registerOk"
  \/ e.op = "fetched" /\ ~(e.got.ok /\ e.got.body)

\* C2: the assets of a round are processed one at a time in list order: at most one
\* promise is awaited at any time, the log never steps back to an earlier list
\* position, every entry names the URL at its list position, and when the fetch of
\* position j starts every earlier position has its fetch resolved and, if its
\* registration was started, that registration resolved.
C2_SequentialInListOrder ==
  /\ Cardinality(inflight) <= 1
  /\ \A k \in 1..Len(log) :
       /\ log[k].url = knownErr.missingFwAssets.items[log[k].idx]
       /\ \A h \in 1..(k - 1) : log[h].idx <= log[k].idx
       /\ log[k].op = "fetch" =>
            \A i \in 1..(log[k].idx - 1) :
              /\ \E h \in 1..(k - 1) : log[h].idx = i /\ Completes(log[h])
              /\ \A h \in At(i) : h < k
              /\ (\E h \in At(i) : log[h].op = "register")
                   => (\E h \in At(i) : log[h].op = "registerOk")
  /\ \A i \in 1..Len(knownErr.missingFwAssets.items) :
       Cardinality({k \in At(i) : log[k].op = "fetch"}) <= 1

\* C2 witness: the second of two distinct URLs is being fetched after the first was
\* registered.
C2_Witness ==
  /\ pc = "awaitFetch"
  /\ idx = 2
  /\ knownErr.missingFwAssets.items = <<"https://x/fw1", "https://x/fw2">>
  /\ \E k \in 1..Len(log) : log[k].op = "registerOk" /\ log[k].idx = 1
  /\ log[Len(log)] = Ev("fetch", 2, "https://x/fw2")

\* C3: a creation response without an error member makes create return its data in
\* that very step with no fetch, no registration and no further creation request;
\* while the request is outstanding nothing else is awaited; and when no round ran
\* before, exactly one creation request was issued and no fetch or registration made.
C3_SuccessShortCircuits ==
  /\ [](pc = "awaitPost" => inflight = {Pending("POST", 0)})
  /\ [][ (pc = "awaitPost" /\ response' # NoResponse /\ response'.error = <<>>) =>
           /\ pc' = "returned"
           /\ result' = response'.data /\ result' # <<>>
           /\ thrown' = NoError
           /\ nFetch' = nFetch /\ nReg' = nReg /\ posts' = posts /\ files' = files
           /\ inflight' = {}
           /\ rounds = 0 => (Len(posts') = 1 /\ nFetch' = 0 /\ nReg' = 0 /\ files' = {}) ]_vars
  /\ [][ pc = "returned" => NoFurtherIO ]_vars

\* C3 witness: the first attempt succeeded.
C3_Witness ==
  /\ pc = "returned"
  /\ rounds = 0
  /\ result = <<"d1-instance">>
  /\ Len(posts) = 1 /\ nFetch = 0 /\ nReg = 0

\* The creation response of the running activation is an error whose payload carries
\* a missingFwAssets array.
ResponseHasList ==
  /\ response.error # <<>>
  /\ response.error[1].missingFwAssets.tag = "array"

\* create threw while handling the creation response, before any I/O of a round.
ThrewOnResponse == pc = "thrown" /\ log = <<>> /\ response # NoResponse

\* C4 as stated: a failed response is handled as a missing-asset error iff its list is
\* non-empty, and a payload whose list is empty is raised as a generic error.
C4_EmptyListIsGeneric ==
  /\ knownErr.class = "MissingFirmwareAssetError" => knownErr.missingFwAssets.items # <<>>
  /\ (ResponseHasList /\ response.error[1].missingFwAssets.items = <<>>)
       => (pc = "thrown" /\ thrown.class = "CorelliumSDKError")

\* C4 amended: a failed response is handled as a missing-asset error iff its payload
\* carries a missingFwAssets array, empty or not. A payload with an array is never
\* raised as a generic error: with the opt-in off the disabled error is thrown, with
\* it on the round runs; a payload without an array is raised as a generic error; and
\* an empty array gives a round without any fetch, followed by the retry.
C4_ListPresenceClassifies ==
  /\ knownErr # NoKnownErr =>
       /\ knownErr.class = "MissingFirmwareAssetError"
       /\ knownErr.missingFwAssets.tag = "array"
  /\ ResponseHasList =>
       IF ThrewOnResponse
       THEN thrown = PlainError("Error", DisabledMessage) /\ knownErr = NoKnownErr
       ELSE knownErr.missingFwAssets = response.error[1].missingFwAssets
  /\ (response.error # <<>> /\ ~ResponseHasList) =>
       /\ ThrewOnResponse
       /\ thrown.class = "CorelliumSDKError"
       /\ knownErr = NoKnownErr
  /\ (knownErr.class = "MissingFirmwareAssetError" /\ knownErr.missingFwAssets.items = <<>>) =>
       /\ pc = "awaitPost"
       /\ rounds >= 1
       /\ log = <<>>
       /\ Len(posts) = rounds + 1

\* C4 witness: an empty list was handled as a missing-asset error: the round ran
\* without a fetch and the creation request was sent again.
C4_Witness ==
  /\ pc = "awaitPost"
  /\ knownErr.class = "MissingFirmwareAssetError"
  /\ knownErr.missingFwAssets = JsArray(<<>>)
  /\ rounds = 1 /\ Len(posts) = 2 /\ nFetch = 0

\* C5: a failed response whose payload has no missingFwAssets member makes create
\* throw, in that very step, a CorelliumSDKError whose message, errorID and field are
\* the payload's error, errorID and field, with no fetch, no registration and no
\* further creation request.
C5_GenericErrorMirrorsPayload ==
  [][ ( /\ pc = "awaitPost"
        /\ response'.error # <<>>
        /\ response'.error[1].missingFwAssets.tag = "undefined" ) =>
        /\ pc' = "thrown"
        /\ thrown'.class = "CorelliumSDKError"
        /\ thrown'.message = response'.error[1].error
        /\ thrown'.errorID = response'.error[1].errorID
        /\ thrown'.field = response'.error[1].field
        /\ nFetch' = nFetch /\ nReg' = nReg /\ posts' = posts /\ files' = files
        /\ inflight' = {} /\ log' = <<>> ]_vars

\* C5 witness: a generic error with a field was thrown on the first attempt.
C5_Witness ==
  /\ pc = "thrown"
  /\ response.error # <<>>
  /\ response.error[1].missingFwAssets = JsUndefined
  /\ thrown.class = "CorelliumSDKError"
  /\ thrown.message = "bad request" /\ thrown.errorID = "E1" /\ thrown.field = "os"
  /\ nFetch = 0 /\ Len(posts) = 1

IsFetch(e) == e.op = "fetch"
FetchesOfRound == SelectSeq(log, IsFetch)

\* C6: for a payload with a non-empty list, the MissingFirmwareAssetError of the round
\* holds the payload's list (same length, same URL at each index, repeats kept) and
\* the payload's projectId; the fetches of the round are, in order, the URLs of that
\* list, all of them once the round has run to its end.
C6_ErrorKeepsListAndProject ==
  /\ ( /\ ResponseHasList
       /\ response.error[1].missingFwAssets.items # <<>>
       /\ ~ThrewOnResponse ) =>
       /\ Len(knownErr.missingFwAssets.items) = Len(response.error[1].missingFwAssets.items)
       /\ \A i \in 1..Len(response.error[1].missingFwAssets.items) :
            knownErr.missingFwAssets.items[i] = response.error[1].missingFwAssets.items[i]
       /\ knownErr.projectId = response.error[1].projectId
       /\ Len(FetchesOfRound) = idx
  /\ Len(FetchesOfRound) <= Len(knownErr.missingFwAssets.items)
  /\ \A k \in 1..Len(FetchesOfRound) :
       /\ FetchesOfRound[k].idx = k
       /\ FetchesOfRound[k].url = knownErr.missingFwAssets.items[k]
  /\ (pc = "awaitPost" /\ rounds > 0) =>
       Len(FetchesOfRound) = Len(knownErr.missingFwAssets.items)

\* C6 witness: a round over a list with a repeated URL ran to its end.
C6_Witness ==
  /\ pc = "awaitPost"
  /\ rounds = 1
  /\ knownErr.missingFwAssets.items = <<"https://x/fw2", "https://x/fw2">>
  /\ knownErr.projectId = "p2"
  /\ Len(FetchesOfRound) = 2

Unusable(e) == e.op = "fetched" /\ ~(e.got.ok /\ e.got.body)
Items == knownErr.missingFwAssets.items

\* C7: when a fetch resolves with an unsuccessful or bodiless response, that step
\* creates no scratch file, starts no registration and throws nothing, and it either
\* starts the fetch of the next URL of the list or, after the last URL, sends the
\* creation request again; no pipe, read or registration ever follows for that position.
C7_UnusableResponseSkipped ==
  /\ [][ ( /\ pc = "awaitFetch"
           /\ Len(log') > Len(log)
           /\ Unusable(log'[Len(log) + 1]) ) =>
           /\ files' = files /\ nReg' = nReg /\ imageRequest' = imageRequest
           /\ thrown' = NoError /\ pc' # "thrown"
           /\ IF idx < Len(Items)
              THEN /\ pc' = "awaitFetch" /\ idx' = idx + 1
                   /\ log' = log \o <<log'[Len(log) + 1], Ev("fetch", idx + 1, Items[idx + 1])>>
                   /\ posts' = posts
              ELSE /\ pc' = "awaitPost"
                   /\ Len(log') = Len(log) + 1
                   /\ Len(posts') = Len(posts) + 1 ]_vars
  /\ [](\A k \in 1..Len(log) : Unusable(log[k]) =>
          \A h \in 1..Len(log) : (h # k /\ log[h].idx = log[k].idx) => log[h].op = "fetch")

\* C7 witness: the first URL answered 404 with a body, nothing was written or
\* registered, and the second URL is being fetched.
C7_Witness ==
  /\ pc = "awaitFetch"
  /\ idx = 2
  /\ log[2] = Fetched(1, Items[1], [ok |-> FALSE, body |-> TRUE])
  /\ files = {} /\ nReg = 0 /\ rounds = 0

TransferRejected(e) == e.op \in {"fetchReject", "pipeReject"}

\* C8 as stated: no per-asset transfer failure, be it a rejected GET, an unusable
\* response or a streamed write that errors, makes create throw.
C8_TransferFailuresSwallowed ==
  \A k \in 1..Len(log) : (TransferRejected(log[k]) \/ Unusable(log[k])) => pc # "thrown"

\* C8 amended: only a fetch that resolves with an unusable response is swallowed (the
\* loop goes on with the next URL or with the retry). A GET that rejects, or a streamed
\* write that errors partway, is caught by nothing: it is the last I/O of the call,
\* create has thrown that very error, the later URLs of the list are not fetched and
\* the creation request is not sent again.
C8_OnlyUnusableResponsesSwallowed ==
  \A k \in 1..Len(log) :
    /\ TransferRejected(log[k]) =>
         /\ pc = "thrown"
         /\ k = Len(log)
         /\ thrown = PlainError(IF log[k].op = "fetchReject" THEN "TypeError" ELSE "Error",
                                IF log[k].op = "fetchReject" THEN "fetch failed"
                                                             ELSE "pipeTo failed")
         /\ inflight = {}
         /\ idx = log[k].idx
         /\ Len(FetchesOfRound) = idx
         /\ Len(posts) = rounds + 1
    /\ Unusable(log[k]) =>
         IF k < Len(log)
         THEN log[k + 1] = Ev("fetch", log[k].idx + 1, Items[log[k].idx + 1])
         ELSE pc = "awaitPost" /\ log[k].idx = Len(Items) /\ Len(posts) = rounds + 1

\* C8 witness: the streamed write of the first of two URLs failed and create threw,
\* the second URL unfetched.
C8_Witness ==
  /\ pc = "thrown"
  /\ thrown.message = "pipeTo failed"
  /\ idx = 1 /\ Len(Items) = 2
  /\ log[Len(log)].op = "pipeReject"
  /\ nFetch = 1 /\ Len(posts) = 1

\* C9: a rejected registration is the last I/O of the call: create has thrown the
\* image collaborator's error, awaits nothing, that registration was started once,
\* no later URL of the list was fetched and the creation request was not sent again.
C9_RegistrationFailurePropagates ==
  \A k \in 1..Len(log) :
    log[k].op = "registerReject" =>
      /\ pc = "thrown"
      /\ k = Len(log)
      /\ thrown = PlainError("ImageApiError", "image create failed")
      /\ inflight = {}
      /\ idx = log[k].idx
      /\ Len(FetchesOfRound) = idx
      /\ Cardinality({h \in 1..Len(log) : log[h].op = "register" /\ log[h].idx = idx}) = 1
      /\ Len(posts) = rounds + 1

\* C9 witness: the registration of the first of two URLs was rejected.
C9_Witness ==
  /\ pc = "thrown"
  /\ thrown.class = "ImageApiError"
  /\ idx = 1 /\ Len(Items) = 2
  /\ nReg = 1 /\ nFetch = 1 /\ Len(posts) = 1

\* C10 as stated: create stops re-issuing the creation request at a fixed maximum of
\* its own, below the number of requests the model lets a call issue.
C10_RetriesBounded == Len(posts) < MaxAttempts

\* C10 amended: create has no retry bound: every round that runs to the end of its
\* list is followed by one more creation request, so a call has always issued one
\* request more than it has completed rounds, and has thrown or returned only on an
\* answer to its latest request or on a rejected step of the running round.
C10_OneRequestPerCompletedRound ==
  /\ pc # "idle" => Len(posts) = rounds + 1
  /\ pc = "returned" => response.error = <<>> /\ result = response.data
  /\ pc = "thrown" => thrown # NoError

\* C10 witness: the service reported missing assets on every attempt and the call
\* has sent as many requests as the model lets it.
C10_Witness ==
  /\ pc = "awaitPost"
  /\ Len(posts) = MaxAttempts
  /\ rounds = MaxAttempts - 1
  /\ nFetch >= MaxAttempts - 1

\* C11: with the opt-in on and every awaited promise settling, a call whose service
\* stops reporting missing assets at some request ends: every outstanding creation
\* request leads to create having returned or thrown; it has returned exactly on an
\* answer without error and thrown on an answer exactly when that answer is an error
\* without a list; and a further creation request is sent only by a round that a
\* missing-asset answer started.
C11_TerminatesWhenServiceRelents ==
  /\ (pc = "awaitPost") ~> Settled
  /\ [](pc = "returned" => (response # NoResponse /\ response.error = <<>>))
  /\ []((pc = "thrown" /\ log = <<>> /\ response # NoResponse)
          => (response.error # <<>> /\ response.error[1].missingFwAssets.tag # "array"))
  /\ [][ (pc # "idle" /\ Len(posts') > Len(posts)) =>
           /\ knownErr'.class = "MissingFirmwareAssetError"
           /\ rounds' = rounds + 1
           /\ Len(SelectSeq(log', IsFetch)) = Len(knownErr'.missingFwAssets.items) ]_vars

\* C11 witness: after as many rounds as the service asked for, the request succeeded.
C11_Witness ==
  /\ pc = "returned"
  /\ rounds = MaxAttempts - 1
  /\ nReg >= 1
  /\ result # <<>>

\* The patch profile the caller asked for.
CallerPatches == IF args.patches = Undefined THEN "jailbroken" ELSE args.patches

\* C12: every creation request of the call has the body of the first, which is the
\* caller's request; and a retry is outstanding only with every entry of the round's
\* list fetched and then registered or skipped, one request per completed round.
C12_RetryRepeatsOriginalRequest ==
  /\ \A k \in 1..Len(posts) :
       /\ posts[k] = posts[1]
       /\ posts[k].project = args.body.project /\ posts[k].name = args.body.name
       /\ posts[k].flavor = args.body.flavor /\ posts[k].os = args.body.os
       /\ posts[k].patches = <<CallerPatches>>
  /\ (pc = "awaitPost" /\ rounds > 0) =>
       /\ Len(posts) = rounds + 1
       /\ \A i \in 1..Len(Items) :
            /\ \E h \in At(i) : log[h].op = "fetch"
            /\ \E h \in At(i) : Completes(log[h])
       /\ log # <<>> => Completes(log[Len(log)])
  /\ pc \in {"awaitFetch", "awaitPipe", "awaitReadFile", "awaitRegister"} =>
       Len(posts) = rounds + 1

\* C12 witness: the third request of a call with a chosen patch profile is out,
\* after two rounds, the last over two URLs.
C12_Witness ==
  /\ pc = "awaitPost"
  /\ rounds = 2 /\ Len(posts) = 3
  /\ args.patches = "corelliumd"
  /\ posts[3] = posts[1]
  /\ Len(Items) = 2

\* C13: every registration call carries type fwasset, encoding plain, encapsulated
\* false, the URL just fetched as its name and, as its project, the projectId of the
\* missing-asset payload that started the round, whatever the project of the request.
C13_RegistrationArguments ==
  /\ imageRequest # NoImageRequest =>
       /\ imageRequest.type = "fwasset"
       /\ imageRequest.encoding = "plain"
       /\ imageRequest.encapsulated = FALSE
       /\ imageRequest.file.type = "application/octet-stream"
  /\ (log # <<>> /\ log[Len(log)].op = "register") => pc = "awaitRegister"
  /\ pc = "awaitRegister" =>
       /\ imageRequest.name = log[Len(log)].url
       /\ \E h \in 1..Len(log) :
            /\ log[h].op = "fetched" /\ log[h].got.ok /\ log[h].got.body
            /\ log[h].idx = idx /\ log[h].url = imageRequest.name
       /\ imageRequest.project = response.error[1].projectId
       /\ imageRequest.file.name = fwAssetPath[Len(fwAssetPath)]

\* C13 witness: an asset is being registered against p2 for a request of project p1.
C13_Witness ==
  /\ pc = "awaitRegister"
  /\ args.body.project = "p1"
  /\ imageRequest.project = "p2"
  /\ imageRequest.name = "https://x/fw2"
  /\ idx = 2

\* C14: the opt-in is read when a missing-asset answer arrives, at every attempt: the
\* round starts iff the variable is '1' at that moment, and otherwise the disabled
\* error is thrown without a fetch, whatever rounds the call ran before.
C14_OptInReadAtEachFailure ==
  [][ /\ ArrivedMissing =>
           IF env = "1"
           THEN /\ pc' = "awaitFetch" /\ nFetch' = nFetch + 1 /\ thrown' = NoError
                /\ knownErr'.missingFwAssets = response'.error[1].missingFwAssets
           ELSE /\ pc' = "thrown" /\ thrown' = PlainError("Error", DisabledMessage)
                /\ nFetch' = nFetch /\ nReg' = nReg /\ files' = files /\ posts' = posts
      /\ (pc = "awaitPost" /\ (Len(posts') > Len(posts) \/ pc' = "awaitFetch")) => env = "1" ]_vars

\* C14 witness: the opt-in was switched off after a round that registered an asset,
\* and the next missing-asset answer threw the disabled error.
C14_Witness ==
  /\ pc = "thrown"
  /\ thrown.message = DisabledMessage
  /\ env # "1"
  /\ rounds >= 1 /\ nReg >= 1 /\ files # {}

\* C15: every creation request carries patches as a list of exactly one element, the
\* caller's value or jailbroken when the caller gave none, the same in every request.
C15_PatchesSingleElementList ==
  /\ \A k \in 1..Len(posts) :
       /\ Len(posts[k].patches) = 1
       /\ posts[k].patches[1] = CallerPatches
       /\ posts[k].patches[1] \in {"jailbroken", "nonjailbroken", "corelliumd"}
  /\ pc # "idle" => patches = CallerPatches

\* C15 witness: a caller that gave no patches has its third request out as jailbroken.
C15_Witness ==
  /\ Len(posts) = 3
  /\ args.patches = Undefined
  /\ posts[3].patches = <<"jailbroken">>
  /\ posts[1].patches = <<"jailbroken">>

\* The retry of the scenario is out: the request {p1, d1, ranchu, 14.0.0} was answered
\* with missingFwAssets [https://x/fw1] and projectId p1, and the fetch succeeded.
ScenarioRetryOut ==
  /\ pc = "awaitPost"
  /\ rounds = 1
  /\ args.body.project = "p1" /\ args.body.name = "d1"
  /\ args.body.flavor = "ranchu" /\ args.body.os = "14.0.0"
  /\ knownErr.class = "MissingFirmwareAssetError"
  /\ knownErr.missingFwAssets = JsArray(<<"https://x/fw1">>)
  /\ knownErr.projectId = "p1"
  /\ \E h \in 1..Len(log) : log[h].op = "fetched" /\ log[h].got.ok /\ log[h].got.body

\* C16: in the scenario exactly one asset was registered, with type fwasset, project
\* p1 and name https://x/fw1, after one fetch; the request was issued twice with the
\* same body, the caller's; and when the retry is answered with success create
\* returns that answer's payload with no further request, fetch or registration.
C16_EndToEndScenario ==
  /\ [](ScenarioRetryOut =>
          /\ nFetch = 1 /\ nReg = 1
          /\ imageRequest.type = "fwasset"
          /\ imageRequest.project = "p1"
          /\ imageRequest.name = "https://x/fw1"
          /\ imageRequest.file.content = "all"
          /\ [k \in 1..Len(log) |-> log[k].op] =
               <<"fetch", "fetched", "pipe", "pipeOk", "readFile", "readFileOk",
                 "register", "registerOk">>
          /\ Len(posts) = 2 /\ posts[2] = posts[1]
          /\ posts[1].project = "p1" /\ posts[1].name = "d1"
          /\ posts[1].flavor = "ranchu" /\ posts[1].os = "14.0.0"
          /\ posts[1].patches = <<CallerPatches>>)
  /\ [][ (ScenarioRetryOut /\ response' # NoResponse /\ response'.error = <<>>) =>
           /\ pc' = "returned"
           /\ result' = response'.data
           /\ posts' = posts /\ nFetch' = nFetch /\ nReg' = nReg
           /\ imageRequest' = imageRequest /\ thrown' = NoError ]_vars

\* C16 witness: the scenario ran to its end and create returned {id: d1-instance}.
C16_Witness ==
  /\ pc = "returned"
  /\ result = <<"d1-instance">>
  /\ rounds = 1 /\ nFetch = 1 /\ nReg = 1
  /\ Len(posts) = 2 /\ posts[2] = posts[1]
  /\ args.body.project = "p1"
  /\ imageRequest # NoImageRequest
  /\ imageRequest.name = "https://x/fw1" /\ imageRequest.project = "p1"

\* The step ends a remediation round: the last entry of the list is registered or
\* skipped, or a missing-asset answer with an empty list is taken with the opt-in on
\* (a step of the call, which leaves the environment as it is).
RoundCompletes ==
  \/ /\ pc \in {"awaitFetch", "awaitRegister"}
     /\ idx = Len(Items)
     /\ Len(log') = Len(log) + 1
     /\ Completes(log'[Len(log')])
  \/ /\ pc = "awaitPost"
     /\ env = "1" /\ env' = env
     /\ knownErr'.class = "MissingFirmwareAssetError"
     /\ knownErr'.missingFwAssets.items = <<>>

\* C17: no retry bound. Every round that runs to the end of its list is followed at
\* once by one more creation request with the original body, whatever the number of
\* requests already made and whether or not the round fetched or registered anything;
\* and create returns only on an answer that reports no error, so while the service
\* keeps reporting missing assets the call does not end.
C17_NoRetryBound ==
  /\ [][ RoundCompletes =>
           /\ pc' = "awaitPost"
           /\ rounds' = rounds + 1
           /\ posts' = Append(posts, posts[1])
           /\ thrown' = NoError /\ result' = result ]_vars
  /\ [][ (pc' = "returned" /\ pc # "returned") =>
           (pc = "awaitPost" /\ response'.error = <<>>) ]_vars
  /\ [](pc = "awaitPost" => Len(posts) = rounds + 1)

\* C17 witness: the last request the horizon allows is out after rounds that fetched
\* but registered nothing and left no scratch file.
C17_Witness ==
  /\ pc = "awaitPost"
  /\ rounds = MaxAttempts - 1 /\ Len(posts) = MaxAttempts
  /\ nFetch >= 1 /\ nReg = 0 /\ files = {}

\* The scratch file of the transfer in hand.
ScratchFile == CHOOSE f \in files : f.name = fwAssetPath[Len(fwAssetPath)]

\* The call ended on a streamed transfer that errored.
TransferErrored == pc = "thrown" /\ log # <<>> /\ log[Len(log)].op = "pipeReject"

\* C18 as stated: an asset is registered only from a scratch file written in full,
\* and no scratch file with partial content is in the scratch directory once a
\* streamed transfer has errored.
C18_NoPartialFileLeftVisible ==
  /\ pc = "awaitRegister" => imageRequest.file.content = "all"
  /\ TransferErrored => \A f \in files : f.written # "partial"

\* C18: an asset is registered only from a scratch file written in full; a file not
\* written in full is that of the transfer in hand or of the transfer that errored;
\* and when a transfer errors create rejects, registers nothing from that file, and
\* the file stays in the scratch directory with what was written of it.
C18_RegisteredOnlyAfterFullTransfer ==
  /\ pc \in {"awaitReadFile", "awaitRegister"} =>
       /\ \E f \in files : f.name = fwAssetPath[Len(fwAssetPath)]
       /\ ScratchFile.written = "all"
  /\ pc = "awaitRegister" =>
       /\ imageRequest.file.content = "all"
       /\ imageRequest.file.name = ScratchFile.name
  /\ \A f \in files : f.written # "all" =>
       /\ f.name = fwAssetPath[Len(fwAssetPath)]
       /\ pc = "awaitPipe" \/ TransferErrored
  /\ TransferErrored =>
       /\ thrown = PlainError("Error", "pipeTo failed")
       /\ \E f \in files : f.name = fwAssetPath[Len(fwAssetPath)]
       /\ ScratchFile.written \in {"none", "partial"}
       /\ \A h \in At(idx) : log[h].op \notin {"readFile", "register"}
       /\ Len(posts) = rounds + 1

\* C18 witness: a transfer errored partway after an earlier asset of the call had
\* been registered, and its scratch file holds part of the body.
C18_Witness ==
  /\ TransferErrored
  /\ nReg >= 1
  /\ \E f \in files : f.name = fwAssetPath[Len(fwAssetPath)] /\ f.written = "partial"
  /\ \E f \in files : f.written = "all"

\* The phases of a call.
Phase(p) ==
  CASE p = "idle" -> "Idle"
    [] p = "awaitPost" -> "Requesting"
    [] p \in {"awaitFetch", "awaitPipe", "awaitReadFile", "awaitRegister"} -> "Remediating"
    [] p = "returned" -> "Succeeded"
    [] p = "thrown" -> "Failed"

\* C20: Succeeded and Failed are absorbing: once create has returned or raised, no
\* request, fetch or registration follows and nothing is outstanding. A call moves
\* from Requesting to Succeeded, Failed or Remediating, and from Remediating to
\* Requesting or to Failed; a round over an empty list has no step to wait on and
\* leads from Requesting straight to the next request.
C20_TerminalPhasesAbsorbing ==
  /\ [](Settled => inflight = {})
  /\ [](pc = "thrown" <=> thrown # NoError)
  /\ [](pc # "returned" => result = <<>>)
  /\ [][ /\ Settled =>
              /\ pc' = pc /\ posts' = posts /\ nFetch' = nFetch /\ nReg' = nReg
              /\ result' = result /\ thrown' = thrown /\ files' = files
         /\ Phase(pc) = "Idle" => Phase(pc') = "Requesting"
         /\ Phase(pc) = "Requesting" =>
              \/ Phase(pc') \in {"Succeeded", "Failed", "Remediating"}
              \/ Phase(pc') = "Requesting" /\ posts' = posts /\ rounds' = rounds
              \/ /\ Phase(pc') = "Requesting"
                 /\ rounds' = rounds + 1
                 /\ knownErr'.missingFwAssets.items = <<>>
         /\ Phase(pc) = "Remediating" =>
              \/ Phase(pc') = "Remediating" /\ posts' = posts /\ rounds' = rounds
              \/ Phase(pc') = "Requesting" /\ rounds' = rounds + 1
              \/ Phase(pc') = "Failed" /\ thrown' # NoError ]_vars

\* C20 witness: the call failed in its second round, on a rejected registration, after
\* an asset had been registered; nothing is outstanding.
C20_Witness ==
  /\ pc = "thrown"
  /\ thrown.message = "image create failed"
  /\ rounds = 1 /\ nReg >= 2
  /\ inflight = {}

\* The events of kind op the round logged for entry i of its list.
OpsAt(i, op) == {k \in At(i) : log[k].op = op}

\* Entry i of the round's list got a response with a success status and a body.
GotUsable(i) == \E k \in OpsAt(i, "fetched") : log[k].got.ok /\ log[k].got.body

\* A round is over: its retry is out, or the call ended in it on a raised error.
RoundOver == (pc = "awaitPost" /\ rounds > 0) \/ (pc = "thrown" /\ log # <<>>)

\* C21 as stated: in every round, one GET per entry of the list, and a scratch file
\* and a registration call for an entry exactly when its GET returned a success
\* status with a body.
C21_EveryEntryFetchedAndRegisteredIfUsable ==
  RoundOver =>
    \A i \in 1..Len(Items) :
      /\ Cardinality(OpsAt(i, "fetch")) = 1
      /\ (OpsAt(i, "pipe") # {} /\ OpsAt(i, "register") # {}) <=> GotUsable(i)

\* C21: in a round no entry of the list is fetched twice, the entries before the one
\* in hand have one GET each and those after it none, each GET is for the URL at that
\* position (repeats fetched again); a scratch file is opened for an entry exactly
\* when its GET returned a success status with a body, and a registration call is made
\* only for such an entry, at most once, right after the fetch, the transfer and the
\* read of that same URL. In a round that runs to its end every entry has one GET and
\* is registered exactly when its GET was usable; a round that ends on a raised error
\* stops at the failing entry, which has no registration if the transfer or the read
\* failed.
C21_OneFetchPerEntryRegisteredWhenUsable ==
  /\ \A i \in 1..Len(Items) :
       /\ Cardinality(OpsAt(i, "fetch")) <= 1
       /\ Cardinality(OpsAt(i, "pipe")) <= 1
       /\ Cardinality(OpsAt(i, "register")) <= 1
       /\ (i < idx /\ log # <<>>) => Cardinality(OpsAt(i, "fetch")) = 1
       /\ (i > idx /\ pc # "awaitPost") => At(i) = {}
       /\ \A k \in OpsAt(i, "fetch") : log[k].url = Items[i]
       /\ OpsAt(i, "pipe") # {} <=> GotUsable(i)
       /\ OpsAt(i, "register") # {} => GotUsable(i)
  /\ \A k \in 1..Len(log) :
       /\ log[k].idx \in 1..Len(Items)
       /\ log[k].op = "register" =>
            /\ k >= 7
            /\ [j \in 1..7 |-> log[k - 7 + j].op] =
                 <<"fetch", "fetched", "pipe", "pipeOk", "readFile", "readFileOk", "register">>
            /\ \A j \in 1..7 : log[k - 7 + j].idx = log[k].idx /\ log[k - 7 + j].url = log[k].url
            /\ log[k - 5].got.ok /\ log[k - 5].got.body
  /\ (pc = "awaitPost" /\ rounds > 0) =>
       \A i \in 1..Len(Items) :
         /\ Cardinality(OpsAt(i, "fetch")) = 1
         /\ OpsAt(i, "register") # {} <=> GotUsable(i)
  /\ (pc = "thrown" /\ log # <<>>) =>
       /\ idx \in 1..Len(Items)
       /\ Cardinality(OpsAt(idx, "fetch")) = 1
       /\ log[Len(log)].op \in {"fetchReject", "pipeReject", "readFileReject", "registerReject"}
       /\ log[Len(log)].op \in {"pipeReject", "readFileReject"} =>
            GotUsable(idx) /\ OpsAt(idx, "register") = {}

\* C21 witness: a round over a list that names one URL twice has run to its end, the
\* first GET usable and registered, the second not usable and skipped.
C21_Witness ==
  /\ pc = "awaitPost" /\ rounds >= 1
  /\ Len(Items) = 2 /\ Items[1] = Items[2]
  /\ GotUsable(1) /\ OpsAt(1, "register") # {}
  /\ ~GotUsable(2) /\ OpsAt(2, "fetch") # {} /\ OpsAt(2, "register") = {}

\* The names in a scratch directory.
Names(dir) == {f.name : f \in dir}

\* C22: create removes no scratch file: every file of the scratch directory is still
\* there after every step, a file written in full stays so, a new file appears only
\* when a usable response starts its transfer, and so on every exit, returned or
\* thrown, the directory holds a file written in full for every registration call the
\* call made in any of its rounds.
C22_ScratchFilesNeverRemoved ==
  /\ [][ /\ Names(files) \subseteq Names(files')
         /\ \A f \in files : f.written = "all" => f \in files'
         /\ Names(files') # Names(files) =>
              /\ pc = "awaitFetch" /\ pc' = "awaitPipe"
              /\ Names(files') = Names(files) \cup {uuids'} ]_vars
  /\ [](/\ Cardinality(Names(files)) = Cardinality(files)
        /\ Names(files) \subseteq 1..uuids
        /\ Cardinality({f \in files : f.written = "all"}) >= nReg)
  /\ [](pc = "awaitRegister" => [name |-> imageRequest.file.name, written |-> "all"] \in files)

\* C22 witness: the call returned after two rounds that registered three assets, and
\* the three scratch files are in the directory.
C22_Witness ==
  /\ pc = "returned"
  /\ rounds = 2 /\ nReg = 3
  /\ Cardinality({f \in files : f.written = "all"}) = 3

\* C23: when create returns, after any number of rounds, the value returned is the
\* data of the response that just arrived, which reports no error; nothing was thrown;
\* the requests issued number the completed rounds plus one; and an error raised on
\* a creation response is built from that response, the last one, while the answers of
\* the earlier attempts, all missing-asset errors, were neither returned nor raised.
C23_ReturnsLastResponsePayload ==
  /\ [][ (pc' = "returned" /\ pc # "returned") =>
           /\ pc = "awaitPost"
           /\ response' \in Responses /\ response'.error = <<>>
           /\ result' = response'.data /\ result' # <<>>
           /\ thrown' = NoError /\ thrown = NoError
           /\ posts' = posts /\ rounds' = rounds ]_vars
  /\ [](pc = "returned" =>
          /\ result = response.data
          /\ result[1] \in DataPayloads
          /\ thrown = NoError
          /\ Len(posts) = rounds + 1)
  /\ [](pc # "returned" => result = <<>>)
  /\ []((pc = "thrown" /\ thrown.class = "CorelliumSDKError") =>
          /\ response.error # <<>>
          /\ thrown = CorelliumSDKError(response.error[1])
          /\ response.error[1].missingFwAssets.tag # "array"
          /\ Len(posts) = rounds + 1)
  /\ [](thrown.class # "MissingFirmwareAssetError")

\* C23 witness: create returned d2-instance, the answer to its third request, after
\* two rounds.
C23_Witness ==
  /\ pc = "returned"
  /\ rounds = 2 /\ Len(posts) = 3
  /\ response.data = <<"d2-instance">>
  /\ result = <<"d2-instance">>

\* The payload of the failed response the round in hand started from.
RoundPayload == response.error[1]

\* C24: a round works from the error of the attempt that just failed: the error it
\* iterates holds the list and the projectId of the response that started the round,
\* every URL it fetches is the entry of that list at its position, and it registers
\* against that projectId; a URL an earlier round handled that this response does not
\* name is not fetched.
C24_RoundUsesLatestError ==
  /\ [](pc \in {"awaitFetch", "awaitPipe", "awaitReadFile", "awaitRegister"} =>
          /\ response # NoResponse /\ response.error # <<>>
          /\ knownErr = MissingFirmwareAssetError(RoundPayload)
          /\ knownErr.missingFwAssets = RoundPayload.missingFwAssets
          /\ knownErr.projectId = RoundPayload.projectId
          /\ \A k \in 1..Len(log) :
               /\ log[k].idx \in 1..Len(RoundPayload.missingFwAssets.items)
               /\ log[k].url = RoundPayload.missingFwAssets.items[log[k].idx])
  /\ [](pc = "awaitRegister" =>
          /\ imageRequest.project = RoundPayload.projectId
          /\ imageRequest.name = RoundPayload.missingFwAssets.items[idx])
  /\ [](\A k \in 1..Len(log) :
          /\ log[k].idx \in 1..Len(Items)
          /\ log[k].url = Items[log[k].idx])
  /\ [][ (pc = "awaitPost" /\ pc' = "awaitFetch") =>
           /\ knownErr'.missingFwAssets = response'.error[1].missingFwAssets
           /\ knownErr'.projectId = response'.error[1].projectId
           /\ log' = <<Ev("fetch", 1, response'.error[1].missingFwAssets.items[1])>> ]_vars
  /\ [][ (pc = "awaitPost" /\ Len(posts') > Len(posts)) =>
           knownErr'.missingFwAssets.items = <<>> /\ log' = <<>> ]_vars

\* C24 witness: the first round registered https://x/fw1 against p1; the next response
\* named only https://x/fw2, with projectId p2, and the round that followed fetched
\* https://x/fw2 and nothing else.
C24_Witness ==
  /\ pc = "awaitPost" /\ rounds = 2
  /\ imageRequest.name = "https://x/fw1" /\ imageRequest.project = "p1"
  /\ knownErr.projectId = "p2"
  /\ Items = <<"https://x/fw2", "https://x/fw2">>
  /\ Len(log) = 4
  /\ \A k \in 1..Len(log) : log[k].url = "https://x/fw2"

====
